---- MODULE Spec2Model ----
(***************************************************************************)
(* Model of absscpi/driver.py: the ctypes session wrapper ScpiClient over  *)
(* the native absscpi library.  The Python methods are modelled from the   *)
(* source; the native entry points they call (the AbsScpiClient C API) are *)
(* not part of the Python sources and are modelled from the specification. *)
(***************************************************************************)
EXTENDS Integers, Sequences, FiniteSets, TLC

\* ------------------------------------------------------------------ bounds
MaxBlocks == 2
MaxOpens == 2
MaxStrLen == 33
MaxVoltLen == 9
MaxReplies == 34

\* ------------------------------------------------------- program constants
\* c_float * 8 in get_all_cell_voltage_targets: the number of cell channels
NumCells == 8
\* (AbsEthernetDiscoveryResult * 32)(): the discovery result buffer
DiscoveryCap == 32
\* c_char * 32: the ip / netmask fields of AbsEthernetConfig
FieldWidth == 32
\* "256+ to address all units on the bus"
BroadcastMin == 256

\* ------------------------------------------------------- Python integers
\* A Python int n of arbitrary size is the pair <<hi, lo>> with
\* n = hi * 2^16 + lo and 0 <= lo < 2^16 (hi is negative for n < 0).
UIntHalf == 2^16

PyInt(hi, lo) == <<hi, lo>>

Small(k) == <<0, k>>

IsNeg(n) == n[1] < 0

\* ctypes.c_uint(n): n reduced modulo 2^32, no range check
c_uint(n) == <<n[1] % UIntHalf, n[2]>>

\* an unsigned 32-bit value v compared with a small number k
UGe(v, k) == v[1] > 0 \/ v[2] >= k

\* ------------------------------------------------------------ text, bytes
\* A str is a sequence of code points, a bytes object a sequence of bytes.
Rep(c, n) == [i \in 1..n |-> c]

RECURSIVE encode(_)
\* str.encode(): UTF-8, for code points below 2048
encode(s) ==
  IF s = <<>> THEN <<>>
  ELSE LET c == Head(s)
       IN (IF c < 128 THEN <<c>> ELSE <<192 + (c \div 64), 128 + (c % 64)>>)
          \o encode(Tail(s))

DecodeError == <<-1>>

RECURSIVE decode(_)
\* bytes.decode(): UTF-8; DecodeError stands for UnicodeDecodeError
decode(b) ==
  IF b = <<>> THEN <<>>
  ELSE IF b[1] < 128 THEN
         LET r == decode(Tail(b))
         IN IF r = DecodeError THEN DecodeError ELSE <<b[1]>> \o r
  ELSE IF b[1] >= 194 /\ b[1] < 224 /\ Len(b) >= 2 /\ b[2] >= 128 /\ b[2] < 192 THEN
         LET r == decode(Tail(Tail(b)))
         IN IF r = DecodeError THEN DecodeError
            ELSE <<(b[1] - 192) * 64 + (b[2] - 128)>> \o r
  ELSE DecodeError

\* Assignment of a bytes object to a c_char * FieldWidth structure field:
\* ctypes raises ValueError when the bytes are longer than the field and
\* otherwise copies them, zero-filling only the bytes that are left.
FieldFits(b) == Len(b) <= FieldWidth

FieldStore(b) == [i \in 1..FieldWidth |-> IF i <= Len(b) THEN b[i] ELSE 0]

\* ------------------------------------------------------------ return codes
\* int returned by every AbsScpiClient call (restype c_int by default)
ErrTimeout == -3
ErrDevice == -12
ErrNotConnected == -8
ErrRejected == -1
ErrUnknown == -99

OkCodes == {0, 1}

FailCodes == {ErrTimeout, ErrDevice, ErrUnknown}

\* fixed code -> message table of the native library, with a default
KnownCodes == {ErrRejected, ErrTimeout, ErrNotConnected, ErrDevice}

UnknownErrorMsg == <<117, 110, 107>>

Native_ErrorMessage(err) ==
  IF err \in KnownCodes THEN <<101, 0 - err>> ELSE UnknownErrorMsg

\* ScpiClient.err_msg
err_msg(err) == decode(Native_ErrorMessage(err))

\* ScpiClient.__check_err: the exception raised for a return code
__check_err_nonzero(err) == IF err # 0 THEN "ScpiClientError" ELSE "none"

__check_err(err) == IF err < 0 THEN "ScpiClientError" ELSE "none"

\* the message carried by the exception __check_err raises
check_err_msg(err) == IF err < 0 THEN err_msg(err) ELSE <<>>

\* an optional value: None, or Some(x)
None == [some |-> FALSE, v |-> <<>>]

Some(x) == [some |-> TRUE, v |-> x]

\* ------------------------------------------------------------------ state
VARIABLES
  pc,       \* where the caller is: "outside" a with block, "inside" it,
            \* "returned" (an operation has returned to it) or "raising"
            \* (an exception of an operation is propagating)
  handle,   \* ScpiClient.__handle: 0 is NULL, otherwise a native client
  objs,     \* the native clients ever created by AbsScpiClient_Init
  osOpen,   \* the operating-system handles (sockets, ports) now open
  osCount,  \* the number of operating-system handles ever opened
  blocks,   \* the number of with blocks entered
  opened,   \* the device_id argument of the open_serial call that attached
            \* the link now open (absent for a UDP link or no link)
  last      \* the operation that has just run: its arguments, the native
            \* calls it issued and its outcome, until the caller goes on

vars == <<pc, handle, objs, osOpen, osCount, blocks, opened, last>>

NoLink == [alive |-> TRUE, kind |-> "none", os |-> 0, dev |-> Small(0), destroys |-> 0]

NoOp == [op |-> "none", args |-> <<>>, calls |-> <<>>, ret |-> 0, io |-> FALSE,
         raised |-> "none", msg |-> <<>>, value |-> <<>>, env |-> <<>>]

Codes == OkCodes \cup FailCodes

\* ---------------------------------------------- native library (AbsScpiClient)
\* AbsScpiClient_Init(&handle): a new client on success, nothing on failure
Native_Init(res) ==
  IF res >= 0
    THEN [handle |-> Len(objs) + 1, objs |-> Append(objs, NoLink)]
    ELSE [handle |-> handle, objs |-> objs]

\* AbsScpiClient_Destroy(&handle): closes the client's link, frees the
\* client and nulls the handle; a NULL handle is left alone
Native_Destroy(h) ==
  IF h = 0
    THEN [handle |-> 0, objs |-> objs, osOpen |-> osOpen]
    ELSE [handle |-> 0,
          objs |-> [objs EXCEPT ![h] = [@ EXCEPT !.alive = FALSE, !.kind = "none",
                                                  !.os = 0, !.destroys = @ + 1]],
          osOpen |-> osOpen \ {objs[h].os}]

\* AbsScpiClient_OpenUdp / AbsScpiClient_OpenSerial: the link the client
\* holds is closed first; the new link is attached only on success
Native_Open(h, kind, dev, res) ==
  LET released == osOpen \ {objs[h].os}
  IN IF res >= 0
       THEN [objs |-> [objs EXCEPT ![h] = [@ EXCEPT !.kind = kind, !.os = osCount + 1,
                                                      !.dev = dev]],
             osOpen |-> released \cup {osCount + 1},
             osCount |-> osCount + 1]
       ELSE [objs |-> [objs EXCEPT ![h] = [@ EXCEPT !.kind = "none", !.os = 0]],
             osOpen |-> released,
             osCount |-> osCount]

\* the client addresses all units of a serial bus
IsBroadcast(h) == objs[h].kind = "serial" /\ UGe(objs[h].dev, BroadcastMin)

\* One command of the session: refused without I/O when no link is open,
\* when the arguments are invalid or when a query is sent to the broadcast
\* address; otherwise one exchange on the link, whose outcome is res
Native_Exchange(h, isRead, valid, res) ==
  IF objs[h].kind = "none" THEN [ret |-> ErrNotConnected, io |-> FALSE]
  ELSE IF ~valid THEN [ret |-> ErrRejected, io |-> FALSE]
  ELSE IF isRead /\ IsBroadcast(h) THEN [ret |-> ErrRejected, io |-> FALSE]
  ELSE [ret |-> res, io |-> TRUE]

\* channel index check of the native cell commands
Native_ChannelOk(ch) == ~UGe(ch, NumCells)

\* value count check of the native all-cells commands
Native_CountOk(n) == n = Small(NumCells)

\* AbsScpiClient_MulticastDiscovery(ip, results, &count): the first replies,
\* in arrival order, at most as many as the buffer (count on entry) holds
Native_DiscoveryFill(n, cap) ==
  [i \in 1..cap |-> IF i <= n THEN i ELSE 0]

\* ------------------------------------------------------------ ScpiClient
\* the common shape of a command method: one native call, then __check_err
Invoke(op, args, fname, cargs, isRead, valid) ==
  /\ pc = "inside"
  /\ \E res \in Codes :
       LET x == Native_Exchange(handle, isRead, valid, res)
       IN /\ last' = [op |-> op, args |-> args, calls |-> <<<<fname, cargs>>>>,
                      ret |-> x.ret, io |-> x.io, raised |-> __check_err(x.ret),
                      msg |-> check_err_msg(x.ret), value |-> <<>>, env |-> <<>>]
          /\ pc' = IF __check_err(x.ret) = "none" THEN "returned" ELSE "raising"
  /\ UNCHANGED <<handle, objs, osOpen, osCount, blocks, opened>>

\* ScpiClient.__enter__: init(), i.e. AbsScpiClient_Init then __check_err.
\* When init raises, the with statement never runs __exit__.
__enter__ ==
  /\ pc = "outside"
  /\ blocks < MaxBlocks
  /\ \E res \in Codes :
       LET n == Native_Init(res)
       IN /\ handle' = n.handle
          /\ objs' = n.objs
          /\ last' = [NoOp EXCEPT !.op = "__enter__",
                        !.calls = <<<<"AbsScpiClient_Init", <<>>>>>>,
                        !.ret = res, !.raised = __check_err(res),
                        !.msg = check_err_msg(res)]
          /\ pc' = IF __check_err(res) = "none" THEN "inside" ELSE "outside"
  /\ blocks' = blocks + 1
  /\ UNCHANGED <<osOpen, osCount, opened>>

\* ScpiClient.cleanup: AbsScpiClient_Destroy(byref(handle)), no check
cleanup == Native_Destroy(handle)

__exit___mut ==
  /\ pc \in {"inside", "raising"}
  /\ last' = [NoOp EXCEPT !.op = "__exit__", !.args = <<pc>>]
  /\ pc' = "outside"
  /\ handle' = IF pc = "raising" THEN handle ELSE cleanup.handle
  /\ objs' = IF pc = "raising" THEN objs ELSE cleanup.objs
  /\ osOpen' = IF pc = "raising" THEN osOpen ELSE cleanup.osOpen
  /\ opened' = None
  /\ UNCHANGED <<osCount, blocks>>

\* ScpiClient.__exit__: runs when the with block is left, normally or by an
\* exception; it returns None, so the exception keeps propagating
__exit__ ==
  /\ pc \in {"inside", "raising"}
  /\ last' = [NoOp EXCEPT !.op = "__exit__", !.args = <<pc>>,
                !.calls = <<<<"AbsScpiClient_Destroy", <<handle>>>>>>]
  /\ pc' = "outside"
  /\ handle' = cleanup.handle
  /\ objs' = cleanup.objs
  /\ osOpen' = cleanup.osOpen
  /\ opened' = None
  /\ UNCHANGED <<osCount, blocks>>

\* the caller goes on, inside the with block, after an operation returned
caller_continues ==
  /\ pc = "returned"
  /\ pc' = "inside"
  /\ last' = NoOp
  /\ UNCHANGED <<handle, objs, osOpen, osCount, blocks, opened>>

\* the caller handles, inside the with block, the exception of an operation
caller_catches ==
  /\ pc = "raising"
  /\ pc' = "inside"
  /\ last' = NoOp
  /\ UNCHANGED <<handle, objs, osOpen, osCount, blocks, opened>>

\* ------------------------------------------------------------------ inputs
\* interface_ip.encode() if interface_ip else None
OptEncode(x) == IF x.some /\ x.v # <<>> THEN Some(encode(x.v)) ELSE None

\* -1, 5, 255, 256, 2^32 and 2^32 + 300
DeviceIds ==
  {PyInt(-1, UIntHalf - 1), Small(5), Small(255), Small(256),
   PyInt(UIntHalf, 0), PyInt(UIntHalf, 300)}

\* -1, 0, 3, 7, 8, 2^32 + 3 and 2^32 + 8
Cells ==
  {PyInt(-1, UIntHalf - 1), Small(0), Small(3), Small(7), Small(8),
   PyInt(UIntHalf, 3), PyInt(UIntHalf, 8)}

\* strings of one repeated character: "1" (one byte) or U+00E9 (two bytes)
Strs == {Rep(c, n) : c \in {49, 233}, n \in 0..MaxStrLen}

\* the (ip, netmask) arguments: each ranges over all of Strs while the other
\* is the one-character string "1", and both are the same string
IpArgs ==
  {a \in Strs \X Strs : a[1] = <<49>> \/ a[2] = <<49>> \/ a[1] = a[2]}

Voltages == {Rep(42, n) : n \in 0..MaxVoltLen}

\* the counts the discovery call may report when n replies arrived: none,
\* one too few, the replies stored, all replies, or more than arrived
DiscoveryCounts(n) ==
  {c \in {0, n - 1, n, MaxReplies} : c >= 0} \cup {IF n < DiscoveryCap THEN n ELSE DiscoveryCap}

TargetIps == {<<49, 48>>}

InterfaceIps == {None, Some(<<>>), Some(<<49>>)}

Ports == {<<67, 51>>}

\* ------------------------------------------------------- opening a link
open_udp_mut ==
  /\ pc = "inside"
  /\ osCount < MaxOpens
  /\ \E target_ip \in TargetIps, interface_ip \in InterfaceIps, res \in Codes :
       LET i == Native_Init(0)
           n == Native_Open(handle, "udp", Small(0), res)
       IN /\ handle' = i.handle
          /\ objs' = Append(objs, IF res >= 0 THEN n.objs[handle] ELSE NoLink)
          /\ osOpen' = IF res >= 0 THEN osOpen \cup {osCount + 1} ELSE osOpen
          /\ osCount' = n.osCount
          /\ last' = [NoOp EXCEPT !.op = "open_udp", !.args = <<target_ip, interface_ip>>,
                        !.calls = <<<<"AbsScpiClient_Init", <<>>>>,
                                    <<"AbsScpiClient_OpenUdp",
                                      <<i.handle, encode(target_ip), OptEncode(interface_ip)>>>>>>,
                        !.ret = res, !.io = TRUE, !.raised = __check_err(res),
                        !.msg = check_err_msg(res)]
          /\ pc' = IF __check_err(res) = "none" THEN "returned" ELSE "raising"
  /\ opened' = None
  /\ UNCHANGED blocks

\* ScpiClient.open_udp
open_udp ==
  /\ pc = "inside"
  /\ osCount < MaxOpens
  /\ \E target_ip \in TargetIps, interface_ip \in InterfaceIps, res \in Codes :
       LET n == Native_Open(handle, "udp", Small(0), res)
       IN /\ objs' = n.objs
          /\ osOpen' = n.osOpen
          /\ osCount' = n.osCount
          /\ last' = [NoOp EXCEPT !.op = "open_udp", !.args = <<target_ip, interface_ip>>,
                        !.calls = <<<<"AbsScpiClient_OpenUdp",
                                      <<handle, encode(target_ip), OptEncode(interface_ip)>>>>>>,
                        !.ret = res, !.io = TRUE, !.raised = __check_err(res),
                        !.msg = check_err_msg(res)]
          /\ pc' = IF __check_err(res) = "none" THEN "returned" ELSE "raising"
  /\ opened' = None
  /\ UNCHANGED <<handle, blocks>>

\* ScpiClient.open_serial
open_serial ==
  /\ pc = "inside"
  /\ \E port \in Ports, device_id \in DeviceIds :
       IF IsNeg(device_id)
         THEN /\ last' = [NoOp EXCEPT !.op = "open_serial", !.args = <<port, device_id>>,
                            !.raised = "ValueError"]
              /\ pc' = "raising"
              /\ UNCHANGED <<handle, objs, osOpen, osCount, blocks, opened>>
         ELSE /\ osCount < MaxOpens
              /\ \E res \in Codes :
                   LET n == Native_Open(handle, "serial", c_uint(device_id), res)
                   IN /\ objs' = n.objs
                      /\ osOpen' = n.osOpen
                      /\ osCount' = n.osCount
                      /\ last' = [NoOp EXCEPT !.op = "open_serial",
                                    !.args = <<port, device_id>>,
                                    !.calls = <<<<"AbsScpiClient_OpenSerial",
                                                  <<handle, encode(port), c_uint(device_id)>>>>>>,
                                    !.ret = res, !.io = TRUE, !.raised = __check_err(res),
                                    !.msg = check_err_msg(res)]
                      /\ pc' = IF __check_err(res) = "none" THEN "returned" ELSE "raising"
                      /\ opened' = IF res >= 0 THEN Some(device_id) ELSE None
              /\ UNCHANGED <<handle, blocks>>

\* ------------------------------------------------------------- queries
get_device_info ==
  Invoke("get_device_info", <<>>, "AbsScpiClient_GetDeviceInfo", <<handle>>, TRUE, TRUE)

get_device_id ==
  Invoke("get_device_id", <<>>, "AbsScpiClient_GetDeviceId", <<handle>>, TRUE, TRUE)

get_ip_address ==
  Invoke("get_ip_address", <<>>, "AbsScpiClient_GetIPAddress", <<handle>>, TRUE, TRUE)

get_calibration_date ==
  Invoke("get_calibration_date", <<>>, "AbsScpiClient_GetCalibrationDate",
         <<handle, Small(128)>>, TRUE, TRUE)

get_error_count ==
  Invoke("get_error_count", <<>>, "AbsScpiClient_GetErrorCount", <<handle>>, TRUE, TRUE)

get_next_error ==
  Invoke("get_next_error", <<>>, "AbsScpiClient_GetNextError",
         <<handle, Small(256)>>, TRUE, TRUE)

get_cell_voltage_target ==
  \E cell \in Cells :
    Invoke("get_cell_voltage_target", <<cell>>, "AbsScpiClient_GetCellVoltageTarget",
           <<handle, c_uint(cell)>>, TRUE, Native_ChannelOk(c_uint(cell)))

get_all_cell_voltage_targets_mut ==
  /\ pc = "inside"
  /\ \E res \in Codes :
       LET x == Native_Exchange(handle, TRUE, TRUE, res)
       IN /\ last' = [NoOp EXCEPT !.op = "get_all_cell_voltage_targets",
                        !.calls = <<<<"AbsScpiClient_GetAllCellVoltageTargets",
                                      <<handle, Small(NumCells)>>>>>>,
                        !.ret = x.ret, !.io = x.io, !.raised = __check_err(x.ret),
                        !.msg = check_err_msg(x.ret)]
          /\ pc' = IF __check_err(x.ret) = "none" THEN "returned" ELSE "raising"
          /\ handle' = IF x.ret < 0 THEN cleanup.handle ELSE handle
          /\ objs' = IF x.ret < 0 THEN cleanup.objs ELSE objs
          /\ osOpen' = IF x.ret < 0 THEN cleanup.osOpen ELSE osOpen
  /\ UNCHANGED <<osCount, blocks, opened>>

get_all_cell_voltage_targets ==
  Invoke("get_all_cell_voltage_targets", <<>>, "AbsScpiClient_GetAllCellVoltageTargets",
         <<handle, Small(NumCells)>>, TRUE, TRUE)

\* ------------------------------------------------------------- commands
clear_errors ==
  Invoke("clear_errors", <<>>, "AbsScpiClient_ClearErrors", <<handle>>, FALSE, TRUE)

set_cell_voltage ==
  \E cell \in Cells :
    Invoke("set_cell_voltage", <<cell>>, "AbsScpiClient_SetCellVoltage",
           <<handle, c_uint(cell)>>, FALSE, Native_ChannelOk(c_uint(cell)))

set_all_cell_voltages ==
  \E voltages \in Voltages :
    Invoke("set_all_cell_voltages", <<voltages>>, "AbsScpiClient_SetAllCellVoltages",
           <<handle, voltages, c_uint(Small(Len(voltages)))>>, FALSE,
           Native_CountOk(c_uint(Small(Len(voltages)))))

\* ScpiClient.set_ip_address: the two field assignments come first and each
\* raises ValueError by itself; then the native call and __check_err
set_ip_address ==
  /\ pc = "inside"
  /\ \E a \in IpArgs :
       LET ip == a[1]
           netmask == a[2]
       IN
       IF ~FieldFits(encode(ip)) \/ ~FieldFits(encode(netmask))
         THEN /\ last' = [NoOp EXCEPT !.op = "set_ip_address", !.args = <<ip, netmask>>,
                            !.raised = "ValueError"]
              /\ pc' = "raising"
         ELSE \E res \in Codes :
                LET conf == [ip |-> FieldStore(encode(ip)),
                             netmask |-> FieldStore(encode(netmask))]
                    x == Native_Exchange(handle, FALSE, TRUE, res)
                IN /\ last' = [NoOp EXCEPT !.op = "set_ip_address",
                                 !.args = <<ip, netmask>>,
                                 !.calls = <<<<"AbsScpiClient_SetIPAddress", <<handle, conf>>>>>>,
                                 !.ret = x.ret, !.io = x.io, !.raised = __check_err(x.ret),
                                 !.msg = check_err_msg(x.ret)]
                   /\ pc' = IF __check_err(x.ret) = "none" THEN "returned" ELSE "raising"
  /\ UNCHANGED <<handle, objs, osOpen, osCount, blocks, opened>>

\* ------------------------------------------------------------ discovery
Min(a, b) == IF a < b THEN a ELSE b

\* seq[:k] of Python for k >= 0: the first k elements, or all when fewer
PySlice(seq, k) == SubSeq(seq, 1, Min(k, Len(seq)))

discovery_return_mut(results, count) == results

\* return results[:count.value]
discovery_return(results, count) == PySlice(results, count)

\* ScpiClient.multicast_discovery: n replies arrive, the native call reports
\* count and returns res
multicast_discovery ==
  /\ pc = "inside"
  /\ \E interface_ip \in TargetIps, n \in 0..MaxReplies, res \in {0, ErrTimeout} :
     \E count \in DiscoveryCounts(n) :
       LET results == Native_DiscoveryFill(n, DiscoveryCap)
       IN /\ last' = [NoOp EXCEPT !.op = "multicast_discovery", !.args = <<interface_ip>>,
                        !.calls = <<<<"AbsScpiClient_MulticastDiscovery",
                                      <<encode(interface_ip), Small(DiscoveryCap)>>>>>>,
                        !.ret = res, !.io = TRUE, !.raised = __check_err(res),
                        !.msg = check_err_msg(res),
                        !.value = IF __check_err(res) = "none"
                                    THEN discovery_return(results, count) ELSE <<>>,
                        !.env = <<n, count>>]
          /\ pc' = IF __check_err(res) = "none" THEN "returned" ELSE "raising"
  /\ UNCHANGED <<handle, objs, osOpen, osCount, blocks, opened>>

\* ---------------------------------------------------------- specification
Init ==
  /\ pc = "outside"
  /\ handle = 0
  /\ objs = <<>>
  /\ osOpen = {}
  /\ osCount = 0
  /\ blocks = 0
  /\ opened = None
  /\ last = NoOp

Next ==
  \/ __enter__
  \/ __exit__
  \/ caller_continues
  \/ caller_catches
  \/ open_udp
  \/ open_serial
  \/ get_device_info
  \/ get_device_id
  \/ get_ip_address
  \/ set_ip_address
  \/ get_calibration_date
  \/ get_error_count
  \/ get_next_error
  \/ clear_errors
  \/ set_cell_voltage
  \/ set_all_cell_voltages
  \/ get_cell_voltage_target
  \/ get_all_cell_voltage_targets
  \/ multicast_discovery

Spec == Init /\ [][Next]_vars

\* ------------------------------------------------------------ properties
ReadOps ==
  {"get_device_info", "get_device_id", "get_ip_address", "get_calibration_date",
   "get_error_count", "get_next_error", "get_cell_voltage_target",
   "get_all_cell_voltage_targets"}

\* the link the session holds: none outside a with block
Link(h) == IF h = 0 THEN <<"none", 0, Small(0)>>
           ELSE <<objs[h].kind, objs[h].os, objs[h].dev>>

LinkState == <<Link(handle), osOpen>>

\* a Python int is a channel index when it lies in [0, 7]
InRange(cell) == cell[1] = 0 /\ cell[2] < NumCells

\* a fixed-width field holds a terminator
Terminated(field) == \E i \in 1..FieldWidth : field[i] = 0

\* a device identifier that means "all units": 256 or more
IsBroadcastId(device_id) == ~IsNeg(device_id) /\ UGe(device_id, BroadcastMin)

\* C1: set_cell_voltage with a channel index outside [0,7] fails with a
\* validation error, and no native call has been issued for it.
C1_ChannelRejectedBeforeCall ==
  (last.op = "set_cell_voltage" /\ ~InRange(last.args[1]))
    => (last.raised = "ValueError" /\ last.calls = <<>>)

\* C2: set_all_cell_voltages with a sequence of any length but 8 fails with
\* a validation error, and no native call has been issued for it.
C2_LengthRejectedBeforeCall ==
  (last.op = "set_all_cell_voltages" /\ Len(last.args[1]) # NumCells)
    => (last.raised = "ValueError" /\ last.calls = <<>>)

\* C3: open_serial rejects a negative device identifier before any open
\* call, and passes every identifier >= 0 on to the open call as it is.
C3_DeviceIdPassedOn ==
  last.op = "open_serial"
    => IF IsNeg(last.args[2])
         THEN last.raised = "ValueError" /\ last.calls = <<>>
         ELSE /\ last.raised # "ValueError"
              /\ Len(last.calls) = 1
              /\ last.calls[1][1] = "AbsScpiClient_OpenSerial"
              /\ last.calls[1][2][3] = last.args[2]

C5_OnlyOpenAndCloseChangeLink ==
  [][\/ (last'.op \in {"open_udp", "open_serial"} /\ last'.calls # <<>>)
     \/ last'.op = "__exit__"
     \/ LinkState' = LinkState]_vars

C5_TimedOutQueryStillOpened ==
  /\ last.op = "get_all_cell_voltage_targets"
  /\ last.ret = ErrTimeout
  /\ last.raised = "ScpiClientError"
  /\ objs[handle].kind = "udp"
  /\ objs[handle].os \in osOpen

\* C6: multicast_discovery returns at most 32 entries whatever arrives and
\* whatever count is reported; the entries of replies are the first
\* replies in arrival order; no reply and a count of zero give an empty list.
C6_DiscoveryCapped ==
  last.op = "multicast_discovery"
    => /\ Len(last.value) <= DiscoveryCap
       /\ \A i \in 1..Len(last.value) : i <= last.env[1] => last.value[i] = i
       /\ (last.env[1] = 0 /\ last.env[2] = 0 /\ last.ret >= 0)
            => (last.raised = "none" /\ last.value = <<>>)

C6_MoreThanCapArrived ==
  /\ last.op = "multicast_discovery"
  /\ last.env[1] > DiscoveryCap
  /\ last.env[2] > DiscoveryCap
  /\ last.raised = "none"
  /\ Len(last.value) = DiscoveryCap

\* C7: at most one operating-system handle is open at any time and it is
\* the one of the session's current link: an open on a session that holds
\* a link leaves no handle of the earlier link unreleased.
C7_NoEarlierLinkLeftOpen ==
  /\ Cardinality(osOpen) <= 1
  /\ osOpen = (IF Link(handle)[1] = "none" THEN {} ELSE {Link(handle)[2]})

C7_LinkReplaced ==
  /\ last.op = "open_serial"
  /\ last.raised = "none"
  /\ osCount = 2
  /\ osOpen = {2}
  /\ objs[handle].kind = "serial"

\* C8: every client handle that was initialised is destroyed exactly once
\* when its with block is left: no handle is destroyed twice, the only
\* live handle is the one of the block being run, and outside a block no
\* initialised handle is left.
C8_HandleDestroyedOnce ==
  /\ \A i \in 1..Len(objs) :
       /\ objs[i].destroys <= 1
       /\ objs[i].alive <=> objs[i].destroys = 0
       /\ objs[i].alive => (i = handle /\ pc # "outside")
  /\ pc = "outside" => handle = 0

C8_LeftByException ==
  /\ pc = "outside"
  /\ last.op = "__exit__"
  /\ last.args = <<"raising">>
  /\ Len(objs) >= 1
  /\ \A i \in 1..Len(objs) : objs[i].destroys = 1

\* C9: on a session opened by open_serial with a device identifier of 256
\* or more, every query fails without an exchange on the bus.
C9_BroadcastQueryRejected ==
  (last.op \in ReadOps /\ opened.some /\ IsBroadcastId(opened.v))
    => (last.raised # "none" /\ ~last.io)

\* C10: set_ip_address with an ip or netmask of more than 31 bytes fails
\* before the native call; every field that is sent holds at most 31 bytes
\* and its terminator.
C10_OversizedStringRejected ==
  last.op = "set_ip_address"
    => /\ (Len(encode(last.args[1])) >= FieldWidth \/ Len(encode(last.args[2])) >= FieldWidth)
            => (last.raised = "ValueError" /\ last.calls = <<>>)
       /\ last.calls # <<>>
            => /\ Terminated(last.calls[1][2][2].ip)
               /\ Terminated(last.calls[1][2][2].netmask)

====
